---- MODULE Spec2Model ----
(***************************************************************************)
(* State-machine model of the nicacher cache coordination engine: the      *)
(* `cache` (lifecycle) and `narinfo` (descriptor) tables, the nar archive  *)
(* directory, the job queue, the running executions of cache_nar and       *)
(* purge_nar (queued workers and inline admin invocations), and the two    *)
(* request-path handlers.  Every database transaction and every            *)
(* auto-committed statement of the source is one atomic step; the awaits   *)
(* between them are the points where executions interleave.                *)
(***************************************************************************)
EXTENDS Integers, FiniteSets, Sequences, Bags, TLC

(***************************************************************************)
(* Bounds of the model                                                     *)
(***************************************************************************)
\* jobs in the system at any time: waiting in the queue or being executed
MaxJobs == 2

\* worker pool size: Monitor::register_with_count(4, ..)
NumWorkers == 4

\* artifact hashes requested by clients
Hashes == {"h1", "h2"}
\* configured upstreams, in priority-then-URL order
Upstreams == <<"u1", "u2">>
UpstreamSet == {Upstreams[i] : i \in 1..Len(Upstreams)}

None == "None"

\* Option<T>: the empty sequence is None, a one-element sequence is Some(x)
NoRow == <<>>
NoFile == <<>>
Some(x) == <<x>>
Get(opt) == opt[1]

(***************************************************************************)
(* nix.rs data: hashes, narinfo, nar files                                 *)
(***************************************************************************)
\* Hash::from_method_hash: the method is always Some(..)
from_method_hash(method, string) == [method |-> method, string |-> string]

\* Hash::from_hash: no method
from_hash(string) == [method |-> None, string |-> string]

\* The narinfo text `upstream` serves for `hash`, parsed.  The mirrors are
\* not in sync: each serves its own build of a store path, so the narinfo
\* of one hash differs from upstream to upstream in every field, while
\* one upstream packs all hashes of the model into the same archive (equal
\* file hash and compression).  The nar hash comes without a method
\* prefix, the file hash with one.
UpstreamNarInfo(hash, upstream) ==
    LET fh == IF upstream = Upstreams[1] THEN "f1" ELSE "f2"
    IN [store_path  |-> <<"/nix/store", <<hash>>, upstream>>,
        url         |-> <<"nar", fh, "xz">>,
        compression |-> "xz",
        file_hash   |-> from_method_hash("sha256", fh),
        nar_hash    |-> from_hash(<<"n", hash, upstream>>)]

FileHashes == {"f1", "f2"}

\* HashMethod::default() is the empty string; Display prints the string
method_to_string(method) == IF method = None THEN "" ELSE method

\* NarInfoEntry::from_nar_info: the row written to the narinfo table
from_nar_info(hash, nar_info) ==
    [hash             |-> hash,
     store_path       |-> nar_info.store_path,
     compression      |-> nar_info.compression,
     file_hash_method |-> method_to_string(nar_info.file_hash.method),
     file_hash        |-> nar_info.file_hash.string,
     nar_hash_method  |-> method_to_string(nar_info.file_hash.method),
     nar_hash         |-> nar_info.nar_hash.string]

\* TryFrom<NarInfoEntry> for NarInfo: the narinfo read back from a row
nar_info_try_from(entry) ==
    LET file_hash == from_method_hash(entry.file_hash_method, entry.file_hash)
    IN [store_path  |-> entry.store_path,
        url         |-> <<"nar", file_hash.string, entry.compression>>,
        compression |-> entry.compression,
        file_hash   |-> file_hash,
        nar_hash    |-> from_method_hash(entry.nar_hash_method, entry.nar_hash)]

\* NarInfo::fmt restricted to the modelled fields: the served text
nar_info_to_string(nar_info) ==
    <<nar_info.store_path, nar_info.url, nar_info.compression,
      nar_info.file_hash, nar_info.nar_hash>>

\* a faulty nar_file_path_from_parts: the hash is printed with its method
nar_file_path_from_parts_with_method(file_hash, compression) ==
    <<"nar", file_hash.method, file_hash.string, compression>>

\* cache::nar_file_path_from_parts: <data>/nar/<file_hash>.nar.<compression>
nar_file_path_from_parts(file_hash, compression) ==
    <<"nar", file_hash.string, compression>>

\* cache::nar_file_path
nar_file_path(nar_info) ==
    nar_file_path_from_parts(nar_info.file_hash, nar_info.compression)

\* cache::nar_file_path_from_nar_file: the path the request path reads
nar_file_path_from_nar_file(nar_file) ==
    nar_file_path_from_parts(nar_file.hash, nar_file.compression)

Paths == {<<"nar", fh, "xz">> : fh \in FileHashes}

\* Texts are kept tokenized.  A hash text is the sequence of its parts
\* around the first colon (<<"abc">> or <<"sha256", "abc">>), a derivation
\* name the pair of its parts around the first dash (a hash text and a
\* package name; one part when there is no dash), a path the sequence of
\* its parent directory and the parts of its file name.

\* strings that hold a character that is not alphanumeric
NonAlphanumeric == {"a/b"}

\* Hash::from_str: split at the first colon; no digest after the colon is
\* an error, nothing before the colon is no method; the digest must be
\* alphanumeric.  The empty sequence when it fails.
hash_from_str(s) ==
    IF Len(s) = 2 /\ s[2] = "" THEN <<>>
    ELSE LET string == s[Len(s)]
             hash == IF Len(s) = 1 \/ s[1] = "" THEN from_hash(string)
                     ELSE from_method_hash(s[1], string)
         IN IF string \in NonAlphanumeric THEN <<>> ELSE Some(hash)

\* Hash::fmt: "<method>:<string>" with a method, "<string>" without
hash_fmt(hash) ==
    IF hash.method = None THEN <<hash.string>>
    ELSE <<hash.method, hash.string>>

\* Derivation::from_str: "<hash>-<package>" split at the first dash; no
\* dash and an empty package are errors, the hash is parsed by Hash
derivation_from_str(name) ==
    IF Len(name) < 2 \/ name[2] = "" \/ hash_from_str(name[1]) = <<>>
    THEN <<>>
    ELSE Some([hash |-> Get(hash_from_str(name[1])), package |-> name[2]])

\* Derivation::name: "<hash.string>-<package>"
derivation_name(derivation) ==
    <<<<derivation.hash.string>>, derivation.package>>

\* StorePath::try_from / from_str: the parent directory and the file name,
\* parsed as a derivation
store_path_try_from(s) ==
    IF derivation_from_str(SubSeq(s, 2, Len(s))) = <<>> THEN <<>>
    ELSE Some([store_path_root |-> s[1],
               derivation |-> Get(derivation_from_str(SubSeq(s, 2, Len(s))))])

\* StorePath::path, by which store paths are printed, compared and hashed
store_path_path(store_path) ==
    <<store_path.store_path_root>> \o derivation_name(store_path.derivation)

\* CompressionType::from_str: only "xz" is supported
compression_from_str(s) == IF s = "xz" THEN Some("Xz") ELSE <<>>

\* CompressionType::fmt
compression_fmt(compression) == IF compression = "Xz" THEN "xz" ELSE "?"

\* str::parse::<usize> on the size texts of the model: decimal digits,
\* leading zeros allowed
usize_from_str(s) ==
    CASE s = "7"   -> Some(7)
      [] s = "007" -> Some(7)
      [] s = "12"  -> Some(12)
      [] OTHER     -> <<>>

\* usize Display: decimal digits without leading zeros
usize_fmt(n) ==
    CASE n = 7  -> "7"
      [] n = 12 -> "12"
      [] OTHER  -> "0"

\* NarInfoBuilder::default: no field set; deriver, system and signature
\* have a default (None), every other field must be set before build
NarInfoBuilder_default ==
    [ok |-> TRUE,
     store_path |-> <<>>, url |-> <<>>, compression |-> <<>>,
     file_hash |-> <<>>, file_size |-> <<>>, nar_hash |-> <<>>,
     nar_size |-> <<>>, deriver |-> <<>>, system |-> <<>>,
     references |-> <<>>, signature |-> <<>>]

\* Result<Vec<Derivation>, _> of parsing every reference of a list
references_from_str(value) ==
    IF \E i \in 1..Len(value) : derivation_from_str(value[i]) = <<>>
    THEN <<>>
    ELSE Some([i \in 1..Len(value) |-> Get(derivation_from_str(value[i]))])

\* set field `f` of the builder from a parsed value, or fail
set_field(b, f, parsed_value) ==
    IF parsed_value = <<>> THEN [b EXCEPT !.ok = FALSE]
    ELSE [b EXCEPT ![f] = parsed_value]

\* The body of the loop of NarInfo::from_str for one line.  A line is
\* <<key, value>>, split at its first colon and trimmed, or <<line>> when it
\* has no colon.  A later line for a key overrides an earlier one.
nar_info_from_str_line(b, line) ==
    IF ~b.ok THEN b
    ELSE IF Len(line) = 1 THEN [b EXCEPT !.ok = FALSE]
    ELSE LET key == line[1]
             value == line[2]
         IN CASE key = "StorePath" ->
                     set_field(b, "store_path", store_path_try_from(value))
              [] key = "URL" -> set_field(b, "url", Some(value))
              [] key = "Compression" ->
                     set_field(b, "compression", compression_from_str(value))
              [] key = "FileHash" ->
                     set_field(b, "file_hash", hash_from_str(value))
              [] key = "FileSize" ->
                     set_field(b, "file_size", usize_from_str(value))
              [] key = "NarHash" ->
                     set_field(b, "nar_hash", hash_from_str(value))
              [] key = "NarSize" ->
                     set_field(b, "nar_size", usize_from_str(value))
              [] key = "Deriver" -> set_field(b, "deriver", Some(Some(value)))
              [] key = "System" -> set_field(b, "system", Some(Some(value)))
              [] key = "References" ->
                     set_field(b, "references", references_from_str(value))
              [] key = "Sig" -> set_field(b, "signature", Some(Some(value)))
              [] OTHER -> [b EXCEPT !.ok = FALSE]

RECURSIVE nar_info_from_str_lines(_, _, _)
nar_info_from_str_lines(b, s, i) ==
    IF i > Len(s) THEN b
    ELSE nar_info_from_str_lines(nar_info_from_str_line(b, s[i]), s, i + 1)

\* NarInfoBuilder::build: an unset field without a default is an error
nar_info_build(b) ==
    IF \/ ~b.ok
       \/ \E f \in {"store_path", "url", "compression", "file_hash",
                     "file_size", "nar_hash", "nar_size", "references"} :
              b[f] = <<>>
    THEN <<>>
    ELSE Some([store_path  |-> Get(b.store_path),
               url         |-> Get(b.url),
               compression |-> Get(b.compression),
               file_hash   |-> Get(b.file_hash),
               file_size   |-> Get(b.file_size),
               nar_hash    |-> Get(b.nar_hash),
               nar_size    |-> Get(b.nar_size),
               deriver     |-> IF b.deriver = <<>> THEN <<>>
                               ELSE Get(b.deriver),
               system      |-> IF b.system = <<>> THEN <<>>
                               ELSE Get(b.system),
               references  |-> Get(b.references),
               signature   |-> IF b.signature = <<>> THEN <<>>
                               ELSE Get(b.signature)])

\* NarInfo::from_str: the parsed narinfo, or the empty sequence on an error
nar_info_from_str(s) ==
    nar_info_build(nar_info_from_str_lines(NarInfoBuilder_default, s, 1))

\* NarInfo::fmt: the seven leading lines, Deriver and System when set, the
\* References line always, Sig when set
nar_info_fmt(nar_info) ==
    <<  <<"StorePath", store_path_path(nar_info.store_path)>>,
        <<"URL", nar_info.url>>,
        <<"Compression", compression_fmt(nar_info.compression)>>,
        <<"FileHash", hash_fmt(nar_info.file_hash)>>,
        <<"FileSize", usize_fmt(nar_info.file_size)>>,
        <<"NarHash", hash_fmt(nar_info.nar_hash)>>,
        <<"NarSize", usize_fmt(nar_info.nar_size)>>  >>
    \o (IF nar_info.deriver = <<>> THEN <<>>
        ELSE << <<"Deriver", Get(nar_info.deriver)>> >>)
    \o (IF nar_info.system = <<>> THEN <<>>
        ELSE << <<"System", Get(nar_info.system)>> >>)
    \o << <<"References",
            [i \in 1..Len(nar_info.references) |->
                derivation_name(nar_info.references[i])]>> >>
    \o (IF nar_info.signature = <<>> THEN <<>>
        ELSE << <<"Sig", Get(nar_info.signature)>> >>)

\* configured channels
Channels == {"c1", "c2"}

\* the store paths a channel lists in its store-paths.xz: both channels
\* list the first upstream's build of h1, c1 a path nobody requests, c2 the
\* first upstream's build of h2
ChannelStorePaths(channel) ==
    IF channel = "c1"
    THEN {UpstreamNarInfo("h1", Upstreams[1]).store_path,
          <<"/nix/store", <<"h3">>, Upstreams[1]>>}
    ELSE {UpstreamNarInfo("h1", Upstreams[1]).store_path,
          UpstreamNarInfo("h2", Upstreams[1]).store_path}

(***************************************************************************)
(* State                                                                   *)
(***************************************************************************)
VARIABLES
    cache,      \* table `cache`: hash -> NoRow or
                \* Some([status, last_accessed, last_cached])
    narinfo,    \* table `narinfo`: hash -> NoRow or Some([entry, upstream_url])
    files,      \* nar directory: path -> NoFile or Some(bytes)
    queue,      \* bag of jobs pushed to the apalis storage
    execs,      \* bag of running executions of cache_nar / purge_nar
    ev,         \* what the step just taken returned to its caller
    parsed      \* the result of the last NarInfo::from_str: None or Some(..)

vars == <<cache, narinfo, files, queue, execs, ev, parsed>>

\* the three stores as one value, as the job functions see them
DB == [cache |-> cache, narinfo |-> narinfo, files |-> files]

\* cache::Status of cache.rs, the enum jobs.rs matches on
Status == {"NotAvailable", "Fetching", "OnlyInfo", "Available", "Purging"}

JobKinds == {"CacheNar", "PurgeNar"}

\* jobs::Job
Job == [kind : JobKinds, hash : Hashes, is_force : BOOLEAN]

(***************************************************************************)
(* cache.rs / cache/db.rs statements, as functions of the store            *)
(***************************************************************************)
\* cache::status: SELECT status FROM cache WHERE hash = ?
status(db, hash) ==
    IF db.cache[hash] = NoRow THEN None ELSE Get(db.cache[hash]).status

\* cache::insert_status: INSERT INTO cache, which fails on an existing row
\* (hash is the primary key); last_accessed starts NULL
insert_status(db, hash, s) ==
    IF db.cache[hash] # NoRow THEN [ok |-> FALSE, db |-> db]
    ELSE [ok |-> TRUE,
          db |-> [db EXCEPT !.cache[hash] =
                     Some([status |-> s, last_accessed |-> FALSE,
                           last_cached |-> 0])]]

\* cache::db::set_status: INSERT INTO cache (hash, status) .. ON CONFLICT
\* (hash) DO UPDATE SET status: one row for the hash afterwards, the other
\* columns of an existing row kept
set_status(db, hash, s) ==
    IF db.cache[hash] = NoRow
    THEN [db EXCEPT !.cache[hash] =
             Some([status |-> s, last_accessed |-> FALSE,
                           last_cached |-> 0])]
    ELSE [db EXCEPT !.cache[hash] = Some([Get(@) EXCEPT !.status = s])]

\* cache::update_status: UPDATE cache SET status = ? WHERE hash = ?
\* (no row, no change)
update_status(db, hash, s) ==
    IF db.cache[hash] = NoRow THEN db
    ELSE [db EXCEPT !.cache[hash] = Some([Get(@) EXCEPT !.status = s])]

\* cache::db::set_last_cached: UPDATE cache SET last_cached =
\* CURRENT_TIMESTAMP.  last_cached counts the stamps of the row; a new row
\* holds the column's default, 0.
set_last_cached(db, hash) ==
    IF db.cache[hash] = NoRow THEN db
    ELSE [db EXCEPT !.cache[hash] =
             Some([Get(@) EXCEPT !.last_cached = @ + 1])]

\* cache::db::set_last_accessed: UPDATE cache SET last_accessed = now
set_last_accessed(db, hash) ==
    IF db.cache[hash] = NoRow THEN db
    ELSE [db EXCEPT !.cache[hash] = Some([Get(@) EXCEPT !.last_accessed = TRUE])]

\* a faulty purge_nar_info: the descriptor row is deleted with the
\* lifecycle row
purge_nar_info_cascade(db, hash) ==
    [db EXCEPT !.cache[hash] = NoRow, !.narinfo[hash] = NoRow]

\* cache::purge_nar_info: DELETE FROM cache WHERE hash = ?
purge_nar_info(db, hash) == [db EXCEPT !.cache[hash] = NoRow]

\* a faulty insert_nar_info: when force, the columns of an existing row are
\* overwritten one group at a time and store_path is left out
insert_nar_info_partial(db, hash, nar_info, upstream, force) ==
    LET new == from_nar_info(hash, nar_info)
        entry == IF db.narinfo[hash] = NoRow THEN new
                 ELSE [new EXCEPT
                          !.store_path = Get(db.narinfo[hash]).entry.store_path]
    IN IF ~force /\ db.narinfo[hash] # NoRow
       THEN [ok |-> FALSE, db |-> db]
       ELSE [ok |-> TRUE,
             db |-> [db EXCEPT !.narinfo[hash] =
                        Some([entry |-> entry, upstream_url |-> upstream])]]

\* a faulty insert_nar_info: REPLACE whatever `force` says
insert_nar_info_replace(db, hash, nar_info, upstream, force) ==
    [ok |-> TRUE,
     db |-> [db EXCEPT !.narinfo[hash] =
                Some([entry |-> from_nar_info(hash, nar_info),
                      upstream_url |-> upstream])]]

\* cache::insert_nar_info: REPLACE when force, else INSERT, which fails on
\* an existing row (hash is the primary key)
insert_nar_info(db, hash, nar_info, upstream, force) ==
    IF ~force /\ db.narinfo[hash] # NoRow
    THEN [ok |-> FALSE, db |-> db]
    ELSE [ok |-> TRUE,
          db |-> [db EXCEPT !.narinfo[hash] =
                     Some([entry |-> from_nar_info(hash, nar_info),
                           upstream_url |-> upstream])]]

\* cache::get_nar_info: SELECT .. FROM narinfo WHERE hash = ?
get_nar_info(db, hash) ==
    IF db.narinfo[hash] = NoRow THEN <<>>
    ELSE Some(nar_info_try_from(Get(db.narinfo[hash]).entry))

\* cache::get_nar_info_with_upstream
get_nar_info_with_upstream(db, hash) ==
    IF db.narinfo[hash] = NoRow THEN <<>>
    ELSE Some([nar_info |-> nar_info_try_from(Get(db.narinfo[hash]).entry),
               upstream |-> Get(db.narinfo[hash]).upstream_url])

\* cache::get_nar_file_path
get_nar_file_path(db, hash) ==
    IF db.narinfo[hash] = NoRow THEN <<>>
    ELSE LET entry == Get(db.narinfo[hash]).entry
         IN Some(nar_file_path_from_parts(
                     from_method_hash(entry.file_hash_method, entry.file_hash),
                     entry.compression))

\* cache::db::is_nar_file_cached: join of cache and narinfo on hash
is_nar_file_cached(db, nar_file) ==
    \E h \in Hashes :
        /\ db.cache[h] # NoRow
        /\ db.narinfo[h] # NoRow
        /\ Get(db.narinfo[h]).entry.file_hash = nar_file.hash.string
        /\ Get(db.narinfo[h]).entry.compression = nar_file.compression
        /\ Get(db.cache[h]).status = "Available"

\* a faulty get_store_paths: the status is not looked at
get_store_paths_any_status(db) ==
    {Get(store_path_try_from(Get(db.narinfo[h]).entry.store_path)) :
        h \in {x \in Hashes : db.cache[x] # NoRow /\ db.narinfo[x] # NoRow}}

\* cache::db::get_store_paths: narinfo.store_path of the join of cache and
\* narinfo where the status is Available, each parsed as StorePath
get_store_paths(db) ==
    {Get(store_path_try_from(Get(db.narinfo[h]).entry.store_path)) :
        h \in {x \in Hashes : /\ db.cache[x] # NoRow
                               /\ db.narinfo[x] # NoRow
                               /\ Get(db.cache[x]).status = "Available"}}

(***************************************************************************)
(* fetch.rs: what the upstreams answer                                     *)
(***************************************************************************)
\* the first upstream, in configured order, whose answer is an HTTP success
\* (`oks` is the set of upstreams that answer with success this time)
first_ok(oks) ==
    IF \E i \in 1..Len(Upstreams) : Upstreams[i] \in oks
    THEN Some(Upstreams[CHOOSE i \in 1..Len(Upstreams) :
                  /\ Upstreams[i] \in oks
                  /\ \A j \in 1..(i - 1) : Upstreams[j] \notin oks])
    ELSE <<>>

\* fetch::request_nar_info: the first successful response, then parsed;
\* `wellformed` tells whether that response parses as a narinfo
request_nar_info(hash, oks, wellformed) ==
    IF first_ok(oks) = <<>> \/ ~wellformed THEN <<>>
    ELSE Some([nar_info |-> UpstreamNarInfo(hash, Get(first_ok(oks))),
               upstream |-> Get(first_ok(oks))])

\* the bytes an upstream returns for an archive URL
UpstreamNarFile(url_path, upstream) == [url |-> url_path]

\* fetch::request_nar_file_raw + bytes(): the body of the first successful
\* response
request_nar_file(url_path, oks) ==
    IF first_ok(oks) = <<>> THEN <<>>
    ELSE Some(UpstreamNarFile(url_path, Get(first_ok(oks))))

\* fetch::write_bytes_to_file: create or truncate, then write everything
write_bytes_to_file(db, bytes, path) ==
    [db EXCEPT !.files[path] = Some(bytes)]

\* tokio::fs::remove_file: fails when the file does not exist
remove_file(db, path) ==
    IF db.files[path] = NoFile THEN [ok |-> FALSE, db |-> db]
    ELSE [ok |-> TRUE, db |-> [db EXCEPT !.files[path] = NoFile]]

\* fetch::request_store_paths: the lines of the channel's listing, each
\* parsed as StorePath
request_store_paths(channel) ==
    {Get(store_path_try_from(line)) : line \in ChannelStorePaths(channel)}

\* fetch::request_all_channel_stores: the store paths of all configured
\* channels
request_all_channel_stores ==
    UNION {request_store_paths(channel) : channel \in Channels}

\* cache::missing_from_channel_upstreams: the channel store paths that are
\* not among the cached ones (HashSet difference, store paths compared by
\* path())
missing_from_channel_upstreams(db) ==
    {sp \in request_all_channel_stores :
        \A c \in get_store_paths(db) : store_path_path(c) # store_path_path(sp)}

(***************************************************************************)
(* jobs.rs: the steps of cache_nar and purge_nar                           *)
(***************************************************************************)
Proceed == "Proceed"

\* cache_nar_init, arm None: insert_status(Fetching); an error of the
\* statement is returned with `?` and the transaction is not committed
claimed_by_insert(db, hash) ==
    LET ins == insert_status(db, hash, "Fetching")
    IN IF ins.ok THEN [out |-> Proceed, db |-> ins.db, flag |-> FALSE]
       ELSE [out |-> "Failed", db |-> db, flag |-> FALSE]

\* a faulty cache_nar_init: the row is always written with INSERT, also
\* when the hash has one
cache_nar_init_inserting(db, hash, is_force) ==
    LET s == status(db, hash)
    IN CASE s = "Fetching" ->
                [out |-> "Kill", db |-> db, flag |-> FALSE]
         [] s = "Available" /\ ~is_force ->
                [out |-> "Kill", db |-> db, flag |-> FALSE]
         [] s = "Purging" ->
                [out |-> IF is_force THEN "Reschedule" ELSE "Kill",
                 db |-> db, flag |-> FALSE]
         [] s = "OnlyInfo" /\ ~is_force ->
                [out |-> Proceed, db |-> db, flag |-> TRUE]
         [] OTHER -> claimed_by_insert(db, hash)

\* a faulty cache_nar_init: Available is killed whatever `is_force` says
\* and NotAvailable is left as it is
cache_nar_init_no_refresh(db, hash, is_force) ==
    LET s == status(db, hash)
    IN CASE s \in {"Fetching", "Available"} ->
                [out |-> "Kill", db |-> db, flag |-> FALSE]
         [] s = "Purging" ->
                [out |-> IF is_force THEN "Reschedule" ELSE "Kill",
                 db |-> db, flag |-> FALSE]
         [] s = "OnlyInfo" /\ ~is_force ->
                [out |-> Proceed, db |-> db, flag |-> TRUE]
         [] s = None -> claimed_by_insert(db, hash)
         [] OTHER ->
                [out |-> Proceed, db |-> db, flag |-> FALSE]

\* cache_nar, transaction `cache_nar_init`: read the status and claim.
\* `flag` is is_info_available.
cache_nar_init(db, hash, is_force) ==
    LET s == status(db, hash)
    IN CASE s = "Fetching" ->
                [out |-> "Kill", db |-> db, flag |-> FALSE]
         [] s = "Available" /\ ~is_force ->
                [out |-> "Kill", db |-> db, flag |-> FALSE]
         [] s = "Purging" /\ is_force ->
                [out |-> "Reschedule", db |-> db, flag |-> FALSE]
         [] s = "Purging" /\ ~is_force ->
                [out |-> "Kill", db |-> db, flag |-> FALSE]
         [] s = "OnlyInfo" /\ ~is_force ->
                [out |-> Proceed, db |-> db, flag |-> TRUE]
         [] s = None -> claimed_by_insert(db, hash)
         [] OTHER ->
                [out |-> Proceed, db |-> update_status(db, hash, "Fetching"),
                 flag |-> FALSE]

\* cache_nar, `cache_nar_insert_info`: the answer of request_nar_info
\* (`res`, None when it failed) and the transaction that stores it
cache_nar_insert_info(db, hash, is_force, res) ==
    IF res = <<>> THEN [out |-> "Failed", db |-> db]
    ELSE LET ins == insert_nar_info(db, hash, Get(res).nar_info,
                                    Get(res).upstream, is_force)
         IN IF ~ins.ok THEN [out |-> "Failed", db |-> db]
            ELSE [out |-> Proceed,
                  db |-> update_status(ins.db, hash, "OnlyInfo")]

\* cache_nar, is_info_available branch: the narinfo comes from the database
cache_nar_query_info(db, hash) ==
    IF get_nar_info_with_upstream(db, hash) = <<>>
    THEN [out |-> "Retry", res |-> <<>>]
    ELSE [out |-> Proceed, res |-> get_nar_info_with_upstream(db, hash)]

\* fetch::download_nar_file: request the archive (`bytes`, None when every
\* upstream failed) and write it to the nar file path of the narinfo
download_nar_file(db, nar_info, bytes) ==
    IF bytes = <<>> THEN [out |-> "Failed", db |-> db]
    ELSE [out |-> Proceed,
          db |-> write_bytes_to_file(db, Get(bytes), nar_file_path(nar_info))]

\* cache_nar, last statement: update_status(Available), then Success
cache_nar_available(db, hash) ==
    [out |-> "Success", db |-> update_status(db, hash, "Available")]

\* cache_nar called and awaited with nothing else running in between; the
\* upstreams in `oks_info` answer the narinfo request with success, those
\* in `oks_file` the archive request
cache_nar(db, hash, is_force, oks_info, wellformed, oks_file) ==
    LET c == cache_nar_init(db, hash, is_force)
        res == IF c.flag THEN cache_nar_query_info(c.db, hash).res
               ELSE request_nar_info(hash, oks_info, wellformed)
        i == IF c.flag
             THEN [out |-> cache_nar_query_info(c.db, hash).out, db |-> c.db]
             ELSE cache_nar_insert_info(c.db, hash, is_force, res)
    IN IF c.out # Proceed THEN [out |-> c.out, db |-> c.db]
       ELSE IF i.out # Proceed THEN i
       ELSE LET d == download_nar_file(
                         i.db, Get(res).nar_info,
                         request_nar_file(Get(res).nar_info.url, oks_file))
            IN IF d.out # Proceed THEN d
               ELSE cache_nar_available(d.db, hash)

\* a faulty purge_nar_init: `is_force` is not looked at, Fetching is always
\* rescheduled and NotAvailable always claimed
purge_nar_init_forced(db, hash, is_force) ==
    LET s == status(db, hash)
        claim(f) == [out |-> Proceed,
                     db |-> update_status(db, hash, "Purging"), flag |-> f]
    IN CASE s = None ->
                [out |-> "Kill", db |-> db, flag |-> FALSE]
         [] s = "Purging" ->
                [out |-> "Kill", db |-> db, flag |-> FALSE]
         [] s = "Fetching" ->
                [out |-> "Reschedule", db |-> db, flag |-> FALSE]
         [] s \in {"NotAvailable", "OnlyInfo"} -> claim(FALSE)
         [] OTHER -> claim(TRUE)

\* a faulty purge_nar_init: the status is set to Purging before the match,
\* also when the job is then killed or rescheduled
purge_nar_init_marking(db, hash, is_force) ==
    LET s == status(db, hash)
        marked == update_status(db, hash, "Purging")
        claim(f) == [out |-> Proceed, db |-> marked, flag |-> f]
    IN CASE s = None ->
                [out |-> "Kill", db |-> marked, flag |-> FALSE]
         [] s = "Purging" ->
                [out |-> "Kill", db |-> marked, flag |-> FALSE]
         [] s = "Fetching" /\ is_force ->
                [out |-> "Reschedule", db |-> marked, flag |-> FALSE]
         [] s = "Fetching" /\ ~is_force ->
                [out |-> "Kill", db |-> marked, flag |-> FALSE]
         [] s = "NotAvailable" /\ ~is_force ->
                [out |-> "Kill", db |-> marked, flag |-> FALSE]
         [] s = "NotAvailable" /\ is_force -> claim(FALSE)
         [] s = "OnlyInfo" -> claim(FALSE)
         [] OTHER -> claim(TRUE)

\* a faulty purge_nar_init: a forced purge of a NotAvailable hash expects
\* an archive
purge_nar_init_expecting(db, hash, is_force) ==
    LET s == status(db, hash)
        claim(f) == [out |-> Proceed,
                     db |-> update_status(db, hash, "Purging"), flag |-> f]
    IN CASE s = None ->
                [out |-> "Kill", db |-> db, flag |-> FALSE]
         [] s = "Purging" ->
                [out |-> "Kill", db |-> db, flag |-> FALSE]
         [] s = "Fetching" /\ is_force ->
                [out |-> "Reschedule", db |-> db, flag |-> FALSE]
         [] s = "Fetching" /\ ~is_force ->
                [out |-> "Kill", db |-> db, flag |-> FALSE]
         [] s = "NotAvailable" /\ ~is_force ->
                [out |-> "Kill", db |-> db, flag |-> FALSE]
         [] s = "OnlyInfo" -> claim(FALSE)
         [] OTHER -> claim(TRUE)

\* purge_nar, transaction `purge_nar_init`: read the status and claim.
\* `flag` is is_nar_file_cached.
purge_nar_init(db, hash, is_force) ==
    LET s == status(db, hash)
        claim(f) == [out |-> Proceed,
                     db |-> update_status(db, hash, "Purging"), flag |-> f]
    IN CASE s = None ->
                [out |-> "Kill", db |-> db, flag |-> FALSE]
         [] s = "Purging" ->
                [out |-> "Kill", db |-> db, flag |-> FALSE]
         [] s = "Fetching" /\ is_force ->
                [out |-> "Reschedule", db |-> db, flag |-> FALSE]
         [] s = "Fetching" /\ ~is_force ->
                [out |-> "Kill", db |-> db, flag |-> FALSE]
         [] s = "NotAvailable" /\ ~is_force ->
                [out |-> "Kill", db |-> db, flag |-> FALSE]
         [] s = "NotAvailable" /\ is_force -> claim(FALSE)
         [] s = "OnlyInfo" -> claim(FALSE)
         [] OTHER -> claim(TRUE)

\* purge_nar, is_nar_file_cached branch: look the path up, remove the file
purge_nar_remove_file(db, hash) ==
    IF get_nar_file_path(db, hash) = <<>> THEN [out |-> "Retry", db |-> db]
    ELSE LET rm == remove_file(db, Get(get_nar_file_path(db, hash)))
         IN IF rm.ok THEN [out |-> Proceed, db |-> rm.db]
            ELSE [out |-> "Failed", db |-> db]

\* a faulty last statement of purge_nar: the row is kept and marked
\* Available again
purge_nar_delete_keeping(db, hash) ==
    [out |-> "Success", db |-> update_status(db, hash, "Available")]

\* purge_nar, last statement: purge_nar_info, then Success
purge_nar_delete(db, hash) ==
    [out |-> "Success", db |-> purge_nar_info(db, hash)]

\* purge_nar called and awaited with nothing else running in between
purge_nar(db, hash, is_force) ==
    LET c == purge_nar_init(db, hash, is_force)
    IN IF c.out # Proceed THEN [out |-> c.out, db |-> c.db]
       ELSE LET r == IF c.flag THEN purge_nar_remove_file(c.db, hash)
                     ELSE [out |-> Proceed, db |-> c.db]
            IN IF r.out # Proceed THEN r
               ELSE purge_nar_delete(r.db, hash)

(***************************************************************************)
(* http/api.rs: the request path, as functions of the store                *)
(***************************************************************************)
CacheNar(hash, is_force) ==
    [kind |-> "CacheNar", hash |-> hash, is_force |-> is_force]

PurgeNar(hash, is_force) ==
    [kind |-> "PurgeNar", hash |-> hash, is_force |-> is_force]

\* a faulty get_nar_info: last_accessed is stamped before the descriptor is
\* looked up, so also on a miss
api_get_nar_info_stamping(db, hash) ==
    IF get_nar_info(db, hash) # <<>>
    THEN [code |-> "200",
          body |-> Some(nar_info_to_string(Get(get_nar_info(db, hash)))),
          db   |-> set_last_accessed(db, hash),
          push |-> <<>>]
    ELSE [code |-> "404", body |-> <<>>, db |-> set_last_accessed(db, hash),
          push |-> Some(CacheNar(hash, FALSE))]

\* a faulty get_nar_info: a hit marks the hash Available
api_get_nar_info_marking(db, hash) ==
    IF get_nar_info(db, hash) # <<>>
    THEN [code |-> "200",
          body |-> Some(nar_info_to_string(Get(get_nar_info(db, hash)))),
          db   |-> update_status(set_last_accessed(db, hash), hash,
                                 "Available"),
          push |-> <<>>]
    ELSE [code |-> "404", body |-> <<>>, db |-> db,
          push |-> Some(CacheNar(hash, FALSE))]

\* http::api::get_nar_info, GET /<hash>.narinfo: the response, the store
\* afterwards and the job pushed, if any
api_get_nar_info(db, hash) ==
    IF get_nar_info(db, hash) # <<>>
    THEN [code |-> "200",
          body |-> Some(nar_info_to_string(Get(get_nar_info(db, hash)))),
          db   |-> set_last_accessed(db, hash),
          push |-> <<>>]
    ELSE [code |-> "404", body |-> <<>>, db |-> db,
          push |-> Some(CacheNar(hash, FALSE))]

\* http::api::get_nar_file, GET /nar/<file_hash>.nar.<compression>;
\* ServeFile answers 404 when the file is not there
api_get_nar_file(db, file_hash, compression) ==
    LET nar_file == [hash |-> from_hash(file_hash), compression |-> compression]
        path == nar_file_path_from_nar_file(nar_file)
    IN IF is_nar_file_cached(db, nar_file) /\ db.files[path] # NoFile
       THEN [code |-> "200", body |-> db.files[path]]
       ELSE [code |-> "404", body |-> <<>>]

(***************************************************************************)
(* The state machine                                                       *)
(***************************************************************************)
\* a running execution: the job, who called it, where it is, its locals
\* (flag is is_info_available or is_nar_file_cached)
Exec(job, inline, pc, flag, nar_info, upstream) ==
    [job |-> job, inline |-> inline, pc |-> pc, flag |-> flag,
     nar_info |-> nar_info, upstream |-> upstream]

\* what the step just taken returned to the caller of a job function: the
\* JobResult (Failed for Err(JobError)) and the place it was decided
NoJob == [kind |-> None, hash |-> None, is_force |-> FALSE]

NoEv == [job |-> NoJob, out |-> None, at |-> None, flag |-> FALSE]

JobEv(job, out, at, flag) ==
    [job |-> job, out |-> out, at |-> at, flag |-> flag]

SetDB(db) ==
    /\ cache' = db.cache
    /\ narinfo' = db.narinfo
    /\ files' = db.files

Init ==
    /\ cache = [h \in Hashes |-> NoRow]
    /\ narinfo = [h \in Hashes |-> NoRow]
    /\ files = [p \in Paths |-> NoFile]
    /\ queue = EmptyBag
    /\ execs = EmptyBag
    /\ ev = NoEv
    /\ parsed = <<>>

\* the jobs in the system: queued or running
InSystem == BagCardinality(queue) + BagCardinality(execs)

\* the number of executions run by workers
RunningWorkers ==
    BagCardinality(execs) - BagCardinality(
        [e \in {x \in BagToSet(execs) : x.inline} |-> execs[e]])

\* Workers::push_job through /admin/push/cache_nar and /admin/push/purge_nar
push_job(job) ==
    /\ InSystem < MaxJobs
    /\ queue' = queue (+) SetToBag({job})
    /\ ev' = NoEv
    /\ UNCHANGED <<cache, narinfo, files, execs, parsed>>

\* a client requests GET /<hash>.narinfo
http_get_nar_info(hash) ==
    LET r == api_get_nar_info(DB, hash)
    IN /\ r.push # <<>> => InSystem < MaxJobs
       /\ SetDB(r.db)
       /\ queue' = IF r.push # <<>> THEN queue (+) SetToBag({Get(r.push)})
                   ELSE queue
       /\ ev' = NoEv
       /\ UNCHANGED <<execs, parsed>>

\* a client requests GET /nar/<file_hash>.nar.<compression>: reads only
http_get_nar_file(file_hash, compression) ==
    /\ api_get_nar_file(DB, file_hash, compression).code \in {"200", "404"}
    /\ ev' = NoEv
    /\ UNCHANGED <<cache, narinfo, files, queue, execs, parsed>>

\* the first transaction of a job function, for a job a worker takes from
\* the queue (dispatch_jobs) or one an admin endpoint calls inline
start(job, inline) ==
    LET r == IF job.kind = "CacheNar"
             THEN cache_nar_init(DB, job.hash, job.is_force)
             ELSE purge_nar_init(DB, job.hash, job.is_force)
        pc == IF job.kind = "CacheNar"
              THEN (IF r.flag THEN "get_nar_info" ELSE "request_nar_info")
              ELSE (IF r.flag THEN "remove_file" ELSE "purge_nar_info")
    IN /\ inline \/ (BagIn(job, queue) /\ RunningWorkers < NumWorkers)
       /\ inline => InSystem < MaxJobs
       /\ SetDB(r.db)
       /\ execs' = IF r.out = Proceed
                   THEN execs (+)
                        SetToBag({Exec(job, inline, pc, r.flag, <<>>, None)})
                   ELSE execs
       /\ queue' = IF inline \/ r.out = "Reschedule" THEN queue
                   ELSE queue (-) SetToBag({job})
       /\ ev' = JobEv(job, r.out, "init", r.flag)
       /\ UNCHANGED parsed

\* an execution goes on with the next pc, or returns `out` to its caller;
\* the queue takes a Retry or Reschedule of a worker back
continue(e, out, next, nar_info, upstream) ==
    /\ execs' = IF out = Proceed
                THEN (execs (-) SetToBag({e})) (+)
                     SetToBag({Exec(e.job, e.inline, next, e.flag,
                                    nar_info, upstream)})
                ELSE execs (-) SetToBag({e})
    /\ queue' = IF ~e.inline /\ out \in {"Retry", "Reschedule"}
                THEN queue (+) SetToBag({e.job})
                ELSE queue
    /\ ev' = IF out = Proceed THEN NoEv
             ELSE JobEv(e.job, out, e.pc, e.flag)
    /\ UNCHANGED parsed

\* cache_nar: request_nar_info, answered with success by the upstreams in
\* `oks`, and the cache_nar_insert_info transaction
cache_nar_request(e, oks, wellformed) ==
    /\ e.pc = "request_nar_info"
    /\ LET res == request_nar_info(e.job.hash, oks, wellformed)
           r == cache_nar_insert_info(DB, e.job.hash, e.job.is_force, res)
       IN /\ SetDB(r.db)
          /\ IF r.out = Proceed
             THEN continue(e, Proceed, "download_nar_file",
                           Some(Get(res).nar_info), Get(res).upstream)
             ELSE continue(e, r.out, None, <<>>, None)

\* cache_nar: get_nar_info_with_upstream when the narinfo is already stored
cache_nar_query(e) ==
    /\ e.pc = "get_nar_info"
    /\ LET r == cache_nar_query_info(DB, e.job.hash)
       IN /\ IF r.out = Proceed
             THEN continue(e, Proceed, "download_nar_file",
                           Some(Get(r.res).nar_info), Get(r.res).upstream)
             ELSE continue(e, r.out, None, <<>>, None)
          /\ UNCHANGED <<cache, narinfo, files>>

\* cache_nar: download_nar_file, answered with success by the upstreams in
\* `oks`
cache_nar_download(e, oks) ==
    /\ e.pc = "download_nar_file"
    /\ LET bytes == request_nar_file(Get(e.nar_info).url, oks)
           r == download_nar_file(DB, Get(e.nar_info), bytes)
       IN /\ SetDB(r.db)
          /\ continue(e, r.out, "update_status", e.nar_info, e.upstream)

\* cache_nar: update_status(Available) and return
cache_nar_finish(e) ==
    /\ e.pc = "update_status"
    /\ LET r == cache_nar_available(DB, e.job.hash)
       IN /\ SetDB(r.db)
          /\ continue(e, r.out, None, <<>>, None)

\* purge_nar: get_nar_file_path and remove_file
purge_nar_remove(e) ==
    /\ e.pc = "remove_file"
    /\ LET r == purge_nar_remove_file(DB, e.job.hash)
       IN /\ SetDB(r.db)
          /\ continue(e, r.out, "purge_nar_info", <<>>, None)

\* purge_nar: purge_nar_info and return
purge_nar_finish(e) ==
    /\ e.pc = "purge_nar_info"
    /\ LET r == purge_nar_delete(DB, e.job.hash)
       IN /\ SetDB(r.db)
          /\ continue(e, r.out, None, <<>>, None)

\* one step of a running execution
step ==
    \/ \E e \in BagToSet(execs), oks \in SUBSET UpstreamSet,
          wellformed \in BOOLEAN : cache_nar_request(e, oks, wellformed)
    \/ \E e \in BagToSet(execs) : cache_nar_query(e)
    \/ \E e \in BagToSet(execs), oks \in SUBSET UpstreamSet :
          cache_nar_download(e, oks)
    \/ \E e \in BagToSet(execs) : cache_nar_finish(e)
    \/ \E e \in BagToSet(execs) : purge_nar_remove(e)
    \/ \E e \in BagToSet(execs) : purge_nar_finish(e)

\* the hash the clients and the admin of Spec ask for
Requested == {"h1"}

JobsOn(hs) == {job \in Job : job.hash \in hs}

\* Spec: requests, pushes, workers and inline admin calls on one hash, in
\* every interleaving
Next ==
    \/ \E job \in JobsOn(Requested) : push_job(job)
    \/ \E hash \in Requested : http_get_nar_info(hash)
    \/ \E fh \in FileHashes : http_get_nar_file(fh, "xz")
    \/ \E job \in JobsOn(Requested) : start(job, FALSE)
    \/ step

Spec == Init /\ [][Next]_vars

\* SpecSeq: an admin calls jobs on all hashes inline, one after the other,
\* each awaited before the next is called
NextSeq ==
    \/ \E job \in Job : execs = EmptyBag /\ start(job, TRUE)
    \/ step

SpecSeq == Init /\ [][NextSeq]_vars

\* SpecSeqFair: SpecSeq under fair scheduling.  The runtime polls every
\* task that is ready and every upstream call returns, so an execution
\* that has a next step takes it; nobody is obliged to call a job.
SpecSeqFair == SpecSeq /\ WF_vars(step)

\* the steps of the executions of `job` that stand at `pc` with `upstream`
\* chosen: one task of the runtime
task(job, pc, upstream) ==
    \E e \in BagToSet(execs) :
        /\ e.job = job /\ e.pc = pc /\ e.upstream = upstream
        /\ \/ \E oks \in SUBSET UpstreamSet, wellformed \in BOOLEAN :
                  cache_nar_request(e, oks, wellformed)
           \/ cache_nar_query(e)
           \/ \E oks \in SUBSET UpstreamSet : cache_nar_download(e, oks)
           \/ cache_nar_finish(e)
           \/ purge_nar_remove(e)
           \/ purge_nar_finish(e)

Pcs == {"request_nar_info", "get_nar_info", "download_nar_file",
        "update_status", "remove_file", "purge_nar_info"}

\* SpecFair: Spec under fair scheduling.  A worker that is free takes a job
\* that waits in the queue (dispatch_jobs), and the runtime polls every task
\* that is ready while every upstream call returns, so each execution that
\* has a next step takes it; no client is obliged to send a request or push
\* a job.
SpecFair ==
    /\ Spec
    /\ \A job \in JobsOn(Requested) : WF_vars(start(job, FALSE))
    /\ \A job \in JobsOn(Requested), pc \in Pcs,
          upstream \in UpstreamSet \cup {None} :
            WF_vars(task(job, pc, upstream))

\* SpecCollapse: clients miss on GET /<hash>.narinfo, which queues
\* CacheNar{hash, false}; workers run the jobs; every upstream request
\* is answered with success by some upstream
OksSome == (SUBSET UpstreamSet) \ {{}}

NextCollapse ==
    \/ \E hash \in Hashes : http_get_nar_info(hash)
    \/ \E hash \in Hashes : start(CacheNar(hash, FALSE), FALSE)
    \/ \E e \in BagToSet(execs), oks \in OksSome :
          cache_nar_request(e, oks, TRUE)
    \/ \E e \in BagToSet(execs) : cache_nar_query(e)
    \/ \E e \in BagToSet(execs), oks \in OksSome : cache_nar_download(e, oks)
    \/ \E e \in BagToSet(execs) : cache_nar_finish(e)

SpecCollapse == Init /\ [][NextCollapse]_vars

\* SpecStored: the database file and the nar directory outlive the process
\* (SqliteConnectOptions::create_if_missing, create_dir_all), so the jobs
\* of a run start from what an earlier run, of this or another revision,
\* left there: for the requested hash any lifecycle row the status column
\* can hold, a descriptor row of some upstream or none, any archive files.
\* An admin calls the jobs inline, one after the other.
StoredCacheRows ==
    {NoRow} \cup {Some([status |-> s, last_accessed |-> FALSE,
                           last_cached |-> 0]) : s \in Status}

StoredNarInfoRows(hash) ==
    {NoRow} \cup {Some([entry |-> from_nar_info(hash, UpstreamNarInfo(hash, u)),
                        upstream_url |-> u]) : u \in UpstreamSet}

InitStored ==
    /\ cache \in {c \in [Hashes -> StoredCacheRows] :
                      \A h \in Hashes \ Requested : c[h] = NoRow}
    /\ narinfo \in {n \in [Hashes -> UNION {StoredNarInfoRows(h) : h \in Hashes}] :
                      /\ \A h \in Hashes : n[h] \in StoredNarInfoRows(h)
                      /\ \A h \in Hashes \ Requested : n[h] = NoRow}
    /\ files \in [Paths -> {NoFile} \cup
                              {Some(UpstreamNarFile(path, u)) :
                                  path \in Paths, u \in {Upstreams[1]}}]
    /\ queue = EmptyBag
    /\ execs = EmptyBag
    /\ ev = NoEv
    /\ parsed = <<>>

NextStored ==
    \/ \E job \in JobsOn(Requested) : execs = EmptyBag /\ start(job, TRUE)
    \/ step

SpecStored == InitStored /\ [][NextStored]_vars

\* cache::db::NarInfoEntry::from_nar_info: the row of the narinfo table for
\* a parsed narinfo, every column.  Both method columns are filled from the
\* file hash; a hash without method stores the default method, the empty
\* string; store path and references are stored as printed.
NarInfoEntry_from_nar_info(hash, nar_info) ==
    [hash             |-> hash,
     store_path       |-> store_path_path(nar_info.store_path),
     compression      |-> compression_fmt(nar_info.compression),
     file_hash_method |-> method_to_string(nar_info.file_hash.method),
     file_hash        |-> nar_info.file_hash.string,
     file_size        |-> nar_info.file_size,
     nar_hash_method  |-> method_to_string(nar_info.file_hash.method),
     nar_hash         |-> nar_info.nar_hash.string,
     nar_size         |-> nar_info.nar_size,
     deriver          |-> nar_info.deriver,
     system           |-> nar_info.system,
     refs             |-> [i \in 1..Len(nar_info.references) |->
                              derivation_name(nar_info.references[i])],
     signature        |-> nar_info.signature]

\* cache::db, TryFrom<NarInfoEntry> for NarInfo: the narinfo read back from
\* a row; compression, store path and references are parsed, the url is
\* built from file hash and compression.  The empty sequence when a column
\* does not parse.
NarInfo_try_from(value) ==
    LET file_hash == from_method_hash(value.file_hash_method, value.file_hash)
        compression == compression_from_str(value.compression)
        store_path == store_path_try_from(value.store_path)
        references == references_from_str(value.refs)
    IN IF compression = <<>> \/ store_path = <<>> \/ references = <<>>
       THEN <<>>
       ELSE Some([store_path  |-> Get(store_path),
                  url         |-> <<"nar", file_hash.string,
                                    compression_fmt(Get(compression))>>,
                  compression |-> Get(compression),
                  file_hash   |-> file_hash,
                  file_size   |-> value.file_size,
                  nar_hash    |-> from_method_hash(value.nar_hash_method,
                                                   value.nar_hash),
                  nar_size    |-> value.nar_size,
                  deriver     |-> value.deriver,
                  system      |-> value.system,
                  references  |-> Get(references),
                  signature   |-> value.signature])

\* The narinfo texts SpecNarInfo parses.  A text is given by one choice of
\* its lines: the store path and the references with plain
\* or method-prefixed hashes, the file hash with, without and with an empty
\* method, the size with and without leading zeros, the optional Deriver,
\* System and Sig lines, a second URL line.  A malformed text is the first
\* well-formed one with one defect.
StorePathTexts ==
    {<<"/nix/store", <<"h1">>, "pkg-1.0">>,
     <<"/nix/store", <<"sha256", "h1">>, "pkg-1.0">>}
HashTexts == {<<"f1">>, <<"sha256", "f1">>, <<"", "f1">>}
ReferencesTexts ==
    {<<>>,
     << <<<<"h1">>, "pkg-1.0">> >>,
     << <<<<"h2">>, "lib">>, <<<<"h1">>, "pkg-1.0">> >>,
     << <<<<"sha256", "h2">>, "lib">> >>}
Defects ==
    {"NoPackage", "NoDash", "Compression", "MissingHash", "NonAlphanumeric",
     "Size", "NoReferences", "Reference", "UnknownField", "NoColon"}
WellFormed ==
    [store_path  : StorePathTexts,
     file_hash   : HashTexts,
     file_size   : {"7", "007"},
     deriver     : {<<>>, <<"">>, <<"h9-pkg.drv">>},
     system      : {<<>>, <<"x86_64-linux">>},
     references  : ReferencesTexts,
     signature   : {<<>>, <<"key:sig">>},
     second_url  : BOOLEAN,
     defect      : {""}]
Malformed ==
    [store_path  : {<<"/nix/store", <<"h1">>, "pkg-1.0">>},
     file_hash   : {<<"f1">>},
     file_size   : {"7"},
     deriver     : {<<>>},
     system      : {<<>>},
     references  : {<<>>},
     signature   : {<<>>},
     second_url  : {FALSE},
     defect      : Defects]
NarInfoChoices == WellFormed \cup Malformed

\* the text of a choice, line by line
NarInfoText(c) ==
    <<  <<"StorePath",
          CASE c.defect = "NoPackage" -> <<"/nix/store", <<"h1">>, "">>
            [] c.defect = "NoDash"    -> <<"/nix/store", <<"h1">>>>
            [] OTHER                  -> c.store_path>>,
        <<"URL", "nar/f1.nar.xz">>,
        <<"Compression", IF c.defect = "Compression" THEN "bzip2" ELSE "xz">>,
        <<"FileHash",
          CASE c.defect = "MissingHash"     -> <<"sha256", "">>
            [] c.defect = "NonAlphanumeric" -> <<"a/b">>
            [] OTHER                        -> c.file_hash>>,
        <<"FileSize", IF c.defect = "Size" THEN "x" ELSE c.file_size>>,
        <<"NarHash", <<"sha256", "n1">> >>,
        <<"NarSize", "12">>  >>
    \o (CASE c.defect = "NoReferences" -> <<>>
          [] c.defect = "Reference" -> << <<"References", << <<<<"h2">>>> >> >> >>
          [] OTHER -> << <<"References", c.references>> >>)
    \o (IF c.deriver = <<>> THEN <<>>
        ELSE << <<"Deriver", Get(c.deriver)>> >>)
    \o (IF c.signature = <<>> THEN <<>>
        ELSE << <<"Sig", Get(c.signature)>> >>)
    \o (IF c.system = <<>> THEN <<>>
        ELSE << <<"System", Get(c.system)>> >>)
    \o (IF c.second_url THEN << <<"URL", "nar/f2.nar.xz">> >> ELSE <<>>)
    \o (CASE c.defect = "UnknownField" -> << <<"CA", "fixed">> >>
          [] c.defect = "NoColon"      -> << <<"garbage">> >>
          [] OTHER                     -> <<>>)

\* a narinfo text arrives and is parsed
parse_nar_info(s) ==
    /\ parsed' = nar_info_from_str(s)
    /\ UNCHANGED <<cache, narinfo, files, queue, execs, ev>>

\* the parsed narinfo is printed and the printed text is parsed again
reparse_nar_info ==
    /\ parsed # <<>>
    /\ parsed' = nar_info_from_str(nar_info_fmt(Get(parsed)))
    /\ UNCHANGED <<cache, narinfo, files, queue, execs, ev>>

\* SpecNarInfo: narinfo texts are parsed, printed and parsed again
NextNarInfo ==
    \/ \E c \in NarInfoChoices : parse_nar_info(NarInfoText(c))
    \/ reparse_nar_info

SpecNarInfo == Init /\ [][NextNarInfo]_vars

(***************************************************************************)
(* Properties                                                              *)
(***************************************************************************)
\* the executions past their claim step on `hash`
ExecsOn(hash) == {e \in BagToSet(execs) : e.job.hash = hash}

\* the number of executions past their claim step on `hash`
InFlight(hash) ==
    BagCardinality([e \in ExecsOn(hash) |-> execs[e]])

\* the outcome of the claim transaction `job` would run now
init_of(db, job) ==
    IF job.kind = "CacheNar"
    THEN cache_nar_init(db, job.hash, job.is_force)
    ELSE purge_nar_init(db, job.hash, job.is_force)

\* C1 (At-most-one-in-flight): in every reachable state, for every hash at
\* most one execution is past its claim step and not yet finished, and
\* while there is one, every other job that reads the status of the hash
\* takes a non-proceeding outcome.
C1_AtMostOneInFlight ==
    \A h \in Hashes :
        /\ InFlight(h) <= 1
        /\ InFlight(h) = 1 =>
              \A job \in JobsOn({h}) : init_of(DB, job).out # Proceed

\* C2 (CacheNar and PurgeNar exclude each other): a CacheNar execution and
\* a PurgeNar execution of one hash are never both past their claim step;
\* while one of them is, the claim transaction of the other kind returns
\* kill or reschedule and changes nothing.
C2_CacheAndPurgeExclusive ==
    \A h \in Hashes : \A e \in ExecsOn(h) :
        /\ \A o \in ExecsOn(h) : o.job.kind = e.job.kind
        /\ \A job \in JobsOn({h}) :
              job.kind # e.job.kind =>
                  /\ init_of(DB, job).out \in {"Kill", "Reschedule"}
                  /\ init_of(DB, job).db = DB

\* C3 (Available implies present): in every reachable state, every hash
\* whose status is Available has a descriptor row, and the archive file at
\* the path of that row's file hash and compression exists, also when the
\* hash shares the archive with another hash.
C3_AvailableImpliesPresent ==
    \A h \in Hashes :
        status(DB, h) = "Available" =>
            /\ narinfo[h] # NoRow
            /\ files[Get(get_nar_file_path(DB, h))] # NoFile

\* C4 (Concurrent requests collapse): when only CacheNar{h, false} jobs run
\* and the upstreams succeed, the status of a tracked hash is Fetching or
\* Available at every point, one execution at most is past its claim step
\* on a hash, and while one is, every further CacheNar{h, false} is killed.
C4_RequestsCollapse ==
    \A h \in Hashes :
        /\ status(DB, h) \in {None, "Fetching", "Available"}
        /\ InFlight(h) <= 1
        /\ InFlight(h) = 1 => cache_nar_init(DB, h, FALSE).out = "Kill"

\* C5 (All upstreams down): when no upstream answers the narinfo request of
\* a CacheNar{h, false} execution, the job returns success, the status of h
\* becomes NotAvailable and the descriptor table keeps what it had for h.
C5_AllUpstreamsDown ==
    [][\A e \in BagToSet(execs) :
          (~e.job.is_force /\ cache_nar_request(e, {}, TRUE)) =>
              /\ ev'.job = e.job
              /\ ev'.out = "Success"
              /\ status(DB', e.job.hash) = "NotAvailable"
              /\ narinfo'[e.job.hash] = narinfo[e.job.hash]]_vars

\* C6 (Force purge under fetch): while h is Fetching, PurgeNar{h, true}
\* returns reschedule and changes nothing; once h is Available it
\* proceeds; and when a PurgeNar{h, true} that proceeded from Available
\* returns success, the lifecycle row of h is absent and the archive file
\* of h is deleted.
C6_ForcePurgeUnderFetch ==
    \A h \in Hashes :
        /\ status(DB, h) = "Fetching" =>
              /\ purge_nar_init(DB, h, TRUE).out = "Reschedule"
              /\ purge_nar_init(DB, h, TRUE).db = DB
        /\ status(DB, h) = "Available" =>
              purge_nar_init(DB, h, TRUE).out = Proceed
        /\ (ev.job = PurgeNar(h, TRUE) /\ ev.out = "Success" /\ ev.flag) =>
              /\ cache[h] = NoRow
              /\ files[Get(get_nar_file_path(DB, h))] = NoFile

\* C7 (Cold hit): with no descriptor row for h, GET /<h>.narinfo answers
\* 404 and queues CacheNar{h, false}; when a CacheNar{h, false} has just
\* returned success, GET /<h>.narinfo answers 200 with the stored
\* descriptor serialized, and the lifecycle row of h has last_accessed set.
C7_ColdHit ==
    \A h \in Hashes :
        /\ narinfo[h] = NoRow =>
              /\ api_get_nar_info(DB, h).code = "404"
              /\ api_get_nar_info(DB, h).push = Some(CacheNar(h, FALSE))
        /\ (ev.job = CacheNar(h, FALSE) /\ ev.out = "Success") =>
              /\ api_get_nar_info(DB, h).code = "200"
              /\ api_get_nar_info(DB, h).body =
                     Some(nar_info_to_string(Get(get_nar_info(DB, h))))
              /\ api_get_nar_info(DB, h).db.cache[h] # NoRow
              /\ Get(api_get_nar_info(DB, h).db.cache[h]).last_accessed

\* C8 (Archive follows descriptor): when a CacheNar of h has just returned
\* success and h is Available, GET /nar/<file_hash>.nar.<compression> for
\* the file hash and compression of the descriptor of h answers 200 with
\* the bytes the upstream returned for the archive.
C8_ArchiveFollowsDescriptor ==
    \A h \in Hashes :
        (/\ ev.job.kind = "CacheNar"
         /\ ev.job.hash = h
         /\ ev.out = "Success"
         /\ status(DB, h) = "Available") =>
            LET row == Get(narinfo[h])
                r == api_get_nar_file(DB, row.entry.file_hash,
                                      row.entry.compression)
            IN /\ r.code = "200"
               /\ r.body = Some(UpstreamNarFile(
                                    nar_info_try_from(row.entry).url,
                                    row.upstream_url))

\* C9 (Purge idempotence): in every reachable state and for every hash h,
\* PurgeNar(h, true) run to its return twice in succession leaves the
\* lifecycle table, the descriptor table and the archive directory as one
\* run leaves them.
C9_PurgeIdempotent ==
    \A h \in Hashes :
        purge_nar(purge_nar(DB, h, TRUE).db, h, TRUE).db
            = purge_nar(DB, h, TRUE).db

\* C9 witness: h is Available with its archive on disk; the first purge
\* removes the file and the row, the second finds nothing and is killed
C9_Witness ==
    \E h \in Hashes :
        /\ status(DB, h) = "Available"
        /\ files[Get(get_nar_file_path(DB, h))] # NoFile
        /\ purge_nar(DB, h, TRUE).out = "Success"
        /\ purge_nar(DB, h, TRUE).db # DB
        /\ purge_nar(purge_nar(DB, h, TRUE).db, h, TRUE).out = "Kill"

\* the descriptor row written for the narinfo `upstream` serves for `hash`
RowOf(hash, upstream) ==
    Some([entry |-> from_nar_info(hash, UpstreamNarInfo(hash, upstream)),
          upstream_url |-> upstream])

\* C10 (Force refresh): every descriptor row is, in all its fields, the
\* row of one narinfo answer; CacheNar(h, true) on an Available h leaves
\* the row of the newly fetched narinfo when an upstream answers, and the
\* row exactly as it was when none does; so does the narinfo step of
\* every running CacheNar{h, true}.
C10_ForceRefresh ==
    \A h \in Hashes :
        /\ narinfo[h] = NoRow \/ \E u \in UpstreamSet : narinfo[h] = RowOf(h, u)
        /\ \A oks \in SUBSET UpstreamSet, wellformed \in BOOLEAN :
              LET res == request_nar_info(h, oks, wellformed)
                  expected == IF res = <<>> THEN narinfo[h]
                              ELSE RowOf(h, Get(first_ok(oks)))
              IN /\ status(DB, h) = "Available" =>
                        \A oks_file \in SUBSET UpstreamSet :
                            cache_nar(DB, h, TRUE, oks, wellformed,
                                      oks_file).db.narinfo[h] = expected
                 /\ \A e \in ExecsOn(h) :
                        (e.job = CacheNar(h, TRUE)
                            /\ e.pc = "request_nar_info") =>
                            cache_nar_insert_info(DB, h, TRUE, res)
                                .db.narinfo[h] = expected

\* C10 witness: a CacheNar{h, true} has just returned success on an h whose
\* archive of the first upstream is on disk and whose descriptor row is now
\* the one of the second upstream, and a further forced refresh would put
\* the row of the first upstream back
C10_Witness ==
    \E h \in Hashes :
        /\ ev.job = CacheNar(h, TRUE)
        /\ ev.out = "Success"
        /\ status(DB, h) = "Available"
        /\ narinfo[h] = RowOf(h, Upstreams[2])
        /\ files[nar_file_path(UpstreamNarInfo(h, Upstreams[1]))] # NoFile
        /\ cache_nar(DB, h, TRUE, UpstreamSet, TRUE, UpstreamSet)
               .db.narinfo[h] = RowOf(h, Upstreams[1])

\* C11 (Miss enqueues only): a GET /<hash>.narinfo that finds no descriptor
\* row answers 404, adds exactly one CacheNar{hash, false} to the queue and
\* leaves the lifecycle table, last_accessed included, the descriptor table
\* and the archive directory as they were.
C11_MissEnqueuesOnly ==
    [][\A h \in Hashes :
          (narinfo[h] = NoRow /\ http_get_nar_info(h)) =>
              /\ api_get_nar_info(DB, h).code = "404"
              /\ queue' = queue (+) SetToBag({CacheNar(h, FALSE)})
              /\ cache' = cache
              /\ narinfo' = narinfo
              /\ files' = files]_vars

\* C11 witness: h has a lifecycle row never accessed and no descriptor
\* row, and a CacheNar{h, false} waits in the queue while another one is
\* past its claim: the next GET /<h>.narinfo is a miss on a tracked hash
C11_Witness ==
    \E h \in Hashes :
        /\ narinfo[h] = NoRow
        /\ cache[h] # NoRow
        /\ ~Get(cache[h]).last_accessed
        /\ BagIn(CacheNar(h, FALSE), queue)
        /\ api_get_nar_info(DB, h).push = Some(CacheNar(h, FALSE))
        /\ InSystem < MaxJobs

\* C13 (Request path leaves the status alone): no GET /<hash>.narinfo and
\* no GET /nar/.. changes the status of any lifecycle row or adds or
\* removes one; a status changes only in a step of a CacheNar or PurgeNar
\* execution.
C13_RequestPathKeepsStatus ==
    [][/\ ((\E h \in Hashes : http_get_nar_info(h))
             \/ (\E fh \in FileHashes : http_get_nar_file(fh, "xz"))) =>
               \A h \in Hashes : status(DB', h) = status(DB, h)
       /\ (\E h \in Hashes : status(DB', h) # status(DB, h)) =>
               \/ \E job \in Job, inline \in BOOLEAN : start(job, inline)
               \/ step]_vars

\* C13 witness: a GET /<h>.narinfo has hit (last_accessed is set) on a hash
\* that is not Available, and its status is still what the jobs left
C13_Witness ==
    \E h \in Hashes :
        /\ cache[h] # NoRow
        /\ Get(cache[h]).last_accessed
        /\ status(DB, h) \in {"OnlyInfo", "Fetching", "Purging"}
        /\ api_get_nar_info(DB, h).code = "200"

AllChannelStorePaths == UNION {ChannelStorePaths(c) : c \in Channels}

\* C14 (Diff correctness): in every reachable state the store paths
\* list_cache_diff reports are those the channels list minus the store
\* paths of the descriptors of Available hashes; the channel store path of
\* a hash that is not Available (no row, purged, or in any other status)
\* is reported unless another Available hash has it.
C14_DiffCorrect ==
    LET diff == {store_path_path(sp) : sp \in missing_from_channel_upstreams(DB)}
        cached == {Get(narinfo[h]).entry.store_path :
                      h \in {x \in Hashes : /\ status(DB, x) = "Available"
                                             /\ narinfo[x] # NoRow}}
    IN /\ diff = AllChannelStorePaths \ cached
       /\ \A h \in Hashes :
              (status(DB, h) # "Available" /\ narinfo[h] # NoRow
                  /\ Get(narinfo[h]).entry.store_path \in AllChannelStorePaths
                  /\ Get(narinfo[h]).entry.store_path \notin cached) =>
                  Get(narinfo[h]).entry.store_path \in diff

\* C14 witness: h1 and h2 are Available with the store paths the channels
\* list for them, and the diff is exactly the third listed store path
C14_Witness ==
    /\ status(DB, "h1") = "Available"
    /\ status(DB, "h2") = "Available"
    /\ narinfo["h1"] = RowOf("h1", Upstreams[1])
    /\ narinfo["h2"] = RowOf("h2", Upstreams[1])
    /\ missing_from_channel_upstreams(DB) =
           {Get(store_path_try_from(<<"/nix/store", <<"h3">>, Upstreams[1]>>))}

\* C15 (Descriptor never implicitly removed): a descriptor row that exists
\* before a step exists after it, whatever CacheNar and PurgeNar jobs run;
\* the last statement of PurgeNar removes the lifecycle row of its hash
\* and changes nothing else in the two tables.
C15_DescriptorKept ==
    [][\A h \in Hashes :
          /\ narinfo[h] # NoRow => narinfo'[h] # NoRow
          /\ \A e \in ExecsOn(h) :
                 (e.job.kind = "PurgeNar" /\ purge_nar_finish(e)) =>
                     /\ narinfo' = narinfo
                     /\ cache' = [cache EXCEPT ![h] = NoRow]]_vars

\* C15 witness: a PurgeNar of h has just returned success, the lifecycle
\* row of h is gone and its descriptor row is still there
C15_Witness ==
    \E h \in Hashes :
        /\ ev.job.kind = "PurgeNar"
        /\ ev.job.hash = h
        /\ ev.out = "Success"
        /\ cache[h] = NoRow
        /\ narinfo[h] # NoRow

\* C16 (Insert fails on conflict): while a descriptor row for h exists,
\* insert_nar_info without force fails for every narinfo and upstream and
\* leaves the store as it is, and so does the narinfo step of a running
\* CacheNar{h, false}; the content of an existing descriptor row changes
\* only in the narinfo step of a CacheNar{h, true}.
C16_InsertFailsOnConflict ==
    [][\A h \in Hashes :
          narinfo[h] # NoRow =>
              /\ \A u \in UpstreamSet :
                     LET ins == insert_nar_info(DB, h, UpstreamNarInfo(h, u),
                                                u, FALSE)
                     IN ~ins.ok /\ ins.db = DB
              /\ \A e \in ExecsOn(h), oks \in SUBSET UpstreamSet,
                    wellformed \in BOOLEAN :
                     (~e.job.is_force
                         /\ cache_nar_request(e, oks, wellformed)) =>
                         /\ ev'.out = "Failed"
                         /\ narinfo' = narinfo
              /\ narinfo'[h] # narinfo[h] =>
                     \E e \in ExecsOn(h), oks \in SUBSET UpstreamSet :
                         /\ e.job = CacheNar(h, TRUE)
                         /\ cache_nar_request(e, oks, TRUE)]_vars

\* C16 witness: a CacheNar{h, false} has just failed in its narinfo step
\* on a hash that was purged before, so that its descriptor row was
\* already there: the row is the one of the second upstream, which an
\* insert of the first upstream's narinfo did not overwrite
C16_Witness ==
    \E h \in Hashes :
        /\ ev = JobEv(CacheNar(h, FALSE), "Failed", "request_nar_info", FALSE)
        /\ narinfo[h] = RowOf(h, Upstreams[2])
        /\ status(DB, h) = "Fetching"
        /\ ~insert_nar_info(DB, h, UpstreamNarInfo(h, Upstreams[1]),
                            Upstreams[1], FALSE).ok

\* C17 (Missing archive at purge is not an error): when a PurgeNar that
\* has claimed Purging for h comes to remove the archive file of h and the
\* file is not on disk, it goes on, deletes the lifecycle row of h and
\* returns success.
C17_MissingFileIgnored ==
    \A h \in Hashes : \A e \in ExecsOn(h) :
        (/\ e.job.kind = "PurgeNar"
         /\ e.pc = "remove_file"
         /\ get_nar_file_path(DB, h) # <<>>
         /\ files[Get(get_nar_file_path(DB, h))] = NoFile) =>
            LET r == purge_nar_remove_file(DB, h)
            IN /\ r.out = Proceed
               /\ purge_nar_delete(r.db, h).out = "Success"
               /\ purge_nar_delete(r.db, h).db.cache[h] = NoRow

\* C18 (First upstream that answers and parses): for a CacheNar at its
\* narinfo request, whichever upstreams answer with success (oks) and
\* whichever answers parse as a narinfo (wf), request_nar_info returns the
\* narinfo and upstream of the first upstream in configured order that is
\* in both, and fails only when there is none.
C18_FirstParsingUpstream ==
    \A h \in Hashes : \A e \in ExecsOn(h) :
        (e.job.kind = "CacheNar" /\ e.pc = "request_nar_info") =>
            \A oks \in SUBSET UpstreamSet, wf \in SUBSET UpstreamSet :
                LET wellformed == /\ first_ok(oks) # <<>>
                                  /\ Get(first_ok(oks)) \in wf
                    good == first_ok(oks \cap wf)
                IN request_nar_info(h, oks, wellformed) =
                       IF good = <<>> THEN <<>>
                       ELSE Some([nar_info |-> UpstreamNarInfo(h, Get(good)),
                                  upstream |-> Get(good)])

\* C19 (Archive from the descriptor's upstream): for a CacheNar at its
\* download, whichever upstreams answer the archive request with success,
\* the response taken is the one of the upstream that served the
\* descriptor, and the download fails when that upstream does not answer.
C19_ArchiveFromSameUpstream ==
    \A h \in Hashes : \A e \in ExecsOn(h) :
        (e.job.kind = "CacheNar" /\ e.pc = "download_nar_file") =>
            \A oks \in SUBSET UpstreamSet :
                LET bytes == request_nar_file(Get(e.nar_info).url, oks)
                IN IF e.upstream \in oks
                   THEN /\ bytes # <<>>
                        /\ first_ok(oks) = Some(e.upstream)
                   ELSE bytes = <<>>

\* the executions that are at the download of their archive and will
\* write it to `path`
WritersOf(path) ==
    {e \in BagToSet(execs) :
        /\ e.job.kind = "CacheNar"
        /\ e.pc = "download_nar_file"
        /\ nar_file_path(Get(e.nar_info)) = path}

\* C20 (One writer per archive path): in every reachable state, for every
\* archive path at most one execution is downloading and writing it, also
\* when the executions work on distinct hashes whose descriptors name the
\* same file hash and compression.
C20_OneWriterPerPath ==
    \A path \in Paths :
        BagCardinality([e \in WritersOf(path) |-> execs[e]]) <= 1

\* two parsed narinfo agree in every field; store paths are compared as
\* StorePath::eq compares them, by path
SameNarInfo(a, b) ==
    /\ store_path_path(a.store_path) = store_path_path(b.store_path)
    /\ a.url = b.url
    /\ a.compression = b.compression
    /\ a.file_hash = b.file_hash
    /\ a.file_size = b.file_size
    /\ a.nar_hash = b.nar_hash
    /\ a.nar_size = b.nar_size
    /\ a.deriver = b.deriver
    /\ a.system = b.system
    /\ a.references = b.references
    /\ a.signature = b.signature

\* C21: every narinfo obtained by parsing a text is parsed back from its
\* printed text, equal in every field.
C21_RoundTrip ==
    parsed # <<>> =>
        LET again == nar_info_from_str(nar_info_fmt(Get(parsed)))
        IN again # <<>> /\ SameNarInfo(Get(again), Get(parsed))

\* the path GET /nar/<file_hash>.nar.<compression> reads for the archive
\* of the descriptor row of `hash`
RequestPathOf(hash) ==
    LET entry == Get(narinfo[hash]).entry
    IN nar_file_path_from_nar_file(
           [hash |-> from_hash(entry.file_hash),
            compression |-> entry.compression])

\* C22: the archive path is a function of file hash and compression: the
\* path cache_nar writes for a descriptor, the path purge_nar looks up and
\* the path the request path reads are one path; descriptors of two hashes
\* with the same file hash and compression have the same path; the archive
\* of an Available hash is at the path the request path reads, and every
\* archive on disk is at the request path of a stored descriptor.
C22_ArchivePathPure ==
    /\ \A h \in Hashes : narinfo[h] # NoRow =>
           /\ nar_file_path(nar_info_try_from(Get(narinfo[h]).entry))
                  = RequestPathOf(h)
           /\ get_nar_file_path(DB, h) = Some(RequestPathOf(h))
           /\ status(DB, h) = "Available" =>
                  files[RequestPathOf(h)] # NoFile
    /\ \A h1, h2 \in Hashes :
           (/\ narinfo[h1] # NoRow /\ narinfo[h2] # NoRow
            /\ Get(narinfo[h1]).entry.file_hash
                   = Get(narinfo[h2]).entry.file_hash
            /\ Get(narinfo[h1]).entry.compression
                   = Get(narinfo[h2]).entry.compression)
           => get_nar_file_path(DB, h1) = get_nar_file_path(DB, h2)
    /\ \A path \in Paths : files[path] # NoFile =>
           \E h \in Hashes : narinfo[h] # NoRow /\ RequestPathOf(h) = path

\* two hashes share one archive, both are Available and the request path
\* serves the archive
C22_Witness ==
    /\ \A h \in Hashes : status(DB, h) = "Available"
    /\ get_nar_file_path(DB, "h1") = get_nar_file_path(DB, "h2")
    /\ api_get_nar_file(DB, "f1", "xz").code = "200"

\* the claim step of a `kind` job on `hash` has just been taken
Claimed(kind) == ev'.at = "init" /\ ev'.job.kind = kind

\* the lifecycle row of `hash` after the step has status `s`
StatusAfter(hash, s) == cache'[hash] # NoRow /\ Get(cache'[hash]).status = s

\* C23: the claim step of CacheNar decides by the status of the hash and
\* the force flag: absent -> proceed, the row is created with Fetching;
\* NotAvailable -> proceed to Fetching; Available -> proceed to Fetching
\* when forced, kill otherwise; Fetching -> kill; Purging -> reschedule when
\* forced, kill otherwise.
C23_CacheNarClaim ==
    [][Claimed("CacheNar") =>
        LET h == ev'.job.hash
            s == status(DB, h)
            force == ev'.job.is_force
            out == ev'.out
        IN /\ s = None => out = Proceed /\ StatusAfter(h, "Fetching")
           /\ s = "NotAvailable" => out = Proceed /\ StatusAfter(h, "Fetching")
           /\ s = "Available" /\ force =>
                  out = Proceed /\ StatusAfter(h, "Fetching")
           /\ s = "Available" /\ ~force => out = "Kill"
           /\ s = "Fetching" => out = "Kill"
           /\ s = "Purging" /\ force => out = "Reschedule"
           /\ s = "Purging" /\ ~force => out = "Kill"
    ]_vars

\* a forced CacheNar job has been rescheduled on a hash in Purging
C23_Witness ==
    /\ ev.at = "init" /\ ev.job = CacheNar("h1", TRUE)
    /\ ev.out = "Reschedule" /\ status(DB, "h1") = "Purging"

\* C24: the claim step of PurgeNar decides by the status of the hash and
\* the force flag: absent -> kill; Purging -> kill; Fetching -> reschedule
\* when forced, kill otherwise; NotAvailable -> proceed to Purging when
\* forced, kill otherwise; Available -> proceed to Purging.
C24_PurgeNarClaim ==
    [][Claimed("PurgeNar") =>
        LET h == ev'.job.hash
            s == status(DB, h)
            force == ev'.job.is_force
            out == ev'.out
        IN /\ s = None => out = "Kill"
           /\ s = "Purging" => out = "Kill"
           /\ s = "Fetching" /\ force => out = "Reschedule"
           /\ s = "Fetching" /\ ~force => out = "Kill"
           /\ s = "NotAvailable" /\ force =>
                  out = Proceed /\ StatusAfter(h, "Purging")
           /\ s = "NotAvailable" /\ ~force => out = "Kill"
           /\ s = "Available" => out = Proceed /\ StatusAfter(h, "Purging")
    ]_vars

\* a PurgeNar job that is not forced has been killed on a hash in
\* NotAvailable
C24_Witness ==
    /\ ev.at = "init" /\ ev.job = PurgeNar("h1", FALSE)
    /\ ev.out = "Kill" /\ status(DB, "h1") = "NotAvailable"

\* the lifecycle status of a row value, None for no row
StatusOfRow(row) == IF row = NoRow THEN None ELSE Get(row).status

\* the transitions of the lifecycle, None standing for no row
LegalTransitions ==
    {<<None, "Fetching">>, <<"NotAvailable", "Fetching">>,
     <<"Available", "Fetching">>, <<"Fetching", "Available">>,
     <<"Fetching", "NotAvailable">>, <<"Available", "Purging">>,
     <<"NotAvailable", "Purging">>, <<"Purging", None>>}

\* C25: the status of a lifecycle row is always one of NotAvailable,
\* Fetching, Available, Purging, and every change of the lifecycle row of a
\* hash is one of the legal transitions.
C25_LegalTransitions ==
    [][\A h \in Hashes :
          /\ StatusOfRow(cache'[h]) \in
                 {None, "NotAvailable", "Fetching", "Available", "Purging"}
          /\ StatusOfRow(cache'[h]) # StatusOfRow(cache[h]) =>
                 <<StatusOfRow(cache[h]), StatusOfRow(cache'[h])>>
                     \in LegalTransitions
    ]_vars

\* C26: a job whose claim step decides kill or reschedule returns that
\* outcome at once: the lifecycle rows, the descriptor rows and the archive
\* files are unchanged and no execution of the job is left to request
\* anything from an upstream or touch a file.
C26_NonProceedingFrame ==
    [][(ev'.at = "init" /\ ev'.out # Proceed) =>
          /\ ev'.out \in {"Kill", "Reschedule"}
          /\ cache' = cache /\ narinfo' = narinfo /\ files' = files
          /\ execs' = execs
    ]_vars

\* a PurgeNar job has been rescheduled on a hash in Fetching whose
\* descriptor and archive are stored
C26_Witness ==
    /\ ev.at = "init" /\ ev.job.kind = "PurgeNar" /\ ev.out = "Reschedule"
    /\ status(DB, "h1") = "Fetching"
    /\ narinfo["h1"] # NoRow
    /\ files[Get(get_nar_file_path(DB, "h1"))] # NoFile

\* the running cache_nar executions that have written the descriptor row
\* of their hash: past the cache_nar_insert_info transaction, which the
\* executions with is_info_available skip
InstallersOf(hash) ==
    {e \in ExecsOn(hash) :
        /\ e.job.kind = "CacheNar"
        /\ ~e.flag
        /\ e.pc \in {"download_nar_file", "update_status"}}

\* C27: the install is atomic: no state shows the descriptor row a running
\* CacheNar execution wrote for its hash while the hash is not Available,
\* and whenever a hash is Available the archive of its descriptor is on
\* disk.
C27_InstallAtomic ==
    \A h \in Hashes :
        /\ (InstallersOf(h) # {} /\ narinfo[h] # NoRow) =>
               status(DB, h) = "Available"
        /\ status(DB, h) = "Available" =>
               /\ narinfo[h] # NoRow
               /\ files[Get(get_nar_file_path(DB, h))] # NoFile

\* C28: when the descriptor was fetched but the archive download or write
\* fails, the descriptor table is as it was before the job and the hash
\* does not become Available.  A job that is not forced stores its
\* descriptor with INSERT, so the table had no row for the hash before it.
C28_ArchiveFailureAborts ==
    (/\ ev.at = "download_nar_file" /\ ev.out = "Failed"
     /\ ev.job.kind = "CacheNar" /\ ~ev.job.is_force /\ ~ev.flag)
    => /\ narinfo[ev.job.hash] = NoRow
       /\ status(DB, ev.job.hash) # "Available"

\* C29: purge_nar looks the archive path up before it sets the status to
\* Purging: no purge_nar execution is still before its lookup with Purging
\* committed by itself, and a purge_nar that returned retry because the
\* descriptor row is absent has left the status as it found it, not at
\* Purging.
C29_LookupBeforePurging ==
    /\ \A e \in BagToSet(execs) :
           (e.job.kind = "PurgeNar" /\ e.pc = "remove_file") =>
               status(DB, e.job.hash) # "Purging"
    /\ (ev.job.kind = "PurgeNar" /\ ev.out = "Retry") =>
           status(DB, ev.job.hash) # "Purging"

\* C30: the lifecycle table has one row per hash at most (hash is its
\* primary key) and the claim steps keep to it in every interleaving: no
\* claim step fails on a row that already exists, and a claim that
\* proceeds writes what set_status writes: the row is inserted when the
\* hash has none and updated in place when it has one.
C30_OneRowPerHash ==
    [][ev'.at = "init" =>
          /\ ev'.out \in {Proceed, "Kill", "Reschedule"}
          /\ ev'.out = Proceed =>
                 cache' =
                     (CASE ev'.job.kind = "PurgeNar" ->
                               set_status(DB, ev'.job.hash, "Purging")
                        [] ev'.job.kind = "CacheNar" /\ ev'.flag -> DB
                        [] OTHER ->
                               set_status(DB, ev'.job.hash, "Fetching")).cache
    ]_vars

\* a forced CacheNar job has claimed a hash that already had a row, with
\* another CacheNar job of the hash waiting in the queue
C30_Witness ==
    /\ ev.at = "init" /\ ev.out = Proceed /\ ev.job = CacheNar("h1", TRUE)
    /\ status(DB, "h1") = "Fetching"
    /\ Get(cache["h1"]).last_accessed
    /\ \E job \in BagToSet(queue) : job.kind = "CacheNar"

\* C31: last_cached is stamped at the start of every fetch attempt: the
\* claim step of CacheNar that sets a hash to Fetching leaves a row whose
\* last_cached is later than before; for a hash that had a row the step
\* writes what set_status(Fetching) and set_last_cached write.
C31_StampedAtStart ==
    [][(Claimed("CacheNar") /\ ev'.out = Proceed
        /\ StatusAfter(ev'.job.hash, "Fetching")
        /\ cache[ev'.job.hash] # NoRow)
       => cache' = set_last_cached(
                       set_status(DB, ev'.job.hash, "Fetching"),
                       ev'.job.hash).cache
    ]_vars

\* C33: Fetching is never permanent: a hash whose status is Fetching
\* eventually has status Available or NotAvailable, however the CacheNar
\* execution that owns it ends.
C33_FetchingEnds ==
    \A h \in Hashes :
        (status(DB, h) = "Fetching")
            ~> (status(DB, h) \in {"Available", "NotAvailable"})

\* C34: Purging is never permanent: a hash whose status is Purging
\* eventually has no lifecycle row, however the PurgeNar execution that
\* owns it ends.
C34_PurgingEnds ==
    \A h \in Hashes : (status(DB, h) = "Purging") ~> (cache[h] = NoRow)

\* C35: re-cache after purge: when PurgeNar has run to success on an
\* Available hash, a CacheNar{h, force=false} run after it, whose upstream
\* requests succeed, returns success and leaves the hash Available.
C35_RecacheAfterPurge ==
    \A h \in Hashes :
        (/\ execs = EmptyBag
         /\ status(DB, h) = "Available"
         /\ purge_nar(DB, h, FALSE).out = "Success")
        => \A oks_info \in OksSome, oks_file \in OksSome :
              LET purged == purge_nar(DB, h, FALSE).db
                  again == cache_nar(purged, h, FALSE, oks_info, TRUE, oks_file)
              IN /\ again.out = "Success"
                 /\ status(again.db, h) = "Available"

\* C36: every artifact that is not serveable is re-requested on demand: for
\* a hash that is not Available and has no CacheNar job queued or running,
\* GET /<hash>.narinfo pushes CacheNar{hash, force=false}.
C36_MissRequestsCaching ==
    \A h \in Hashes :
        (/\ status(DB, h) # "Available"
         /\ \A job \in BagToSet(queue) :
                ~(job.kind = "CacheNar" /\ job.hash = h)
         /\ \A e \in BagToSet(execs) :
                ~(e.job.kind = "CacheNar" /\ e.job.hash = h))
        => api_get_nar_info(DB, h).push = Some(CacheNar(h, FALSE))

\* C37: every job terminates: a job that waits in the queue is eventually
\* returned with Success, Kill or Failed; it is not rescheduled or retried
\* forever.
C37_JobsTerminate ==
    \A job \in JobsOn(Requested) :
        BagIn(job, queue)
            ~> (ev.job = job /\ ev.out \in {"Success", "Kill", "Failed"})

\* C38: PurgeNar(h, force=true) on a hash whose status is NotAvailable and
\* that has no descriptor row proceeds without looking up or removing an
\* archive, deletes the lifecycle row and returns success, not retry: the
\* stored files and the descriptor rows are as before.
C38_ForcedPurgeOfNotAvailable ==
    \A h \in Hashes :
        (status(DB, h) = "NotAvailable" /\ narinfo[h] = NoRow)
        => LET c == purge_nar_init(DB, h, TRUE)
               r == purge_nar(DB, h, TRUE)
           IN /\ c.out = Proceed /\ ~c.flag
              /\ r.out = "Success"
              /\ r.db.cache = [cache EXCEPT ![h] = NoRow]
              /\ r.db.files = files
              /\ r.db.narinfo = narinfo

\* h1 is NotAvailable and has no descriptor row while an archive is stored;
\* the forced purge deletes the lifecycle row, returns success and keeps the
\* archive
C38_Witness ==
    /\ status(DB, "h1") = "NotAvailable" /\ narinfo["h1"] = NoRow
    /\ \E p \in DOMAIN files : files[p] # NoFile
    /\ purge_nar(DB, "h1", TRUE).out = "Success"
    /\ purge_nar(DB, "h1", TRUE).db.cache["h1"] = NoRow
    /\ purge_nar(DB, "h1", TRUE).db.files = files

\* C39: metadata-store round trip: the narinfo read back from the row
\* written for a narinfo d equals d in store path, compression, file hash
\* (method and digest), file size, nar hash (method and digest), nar size,
\* deriver, system, references and signature.
C39_StoreRoundTrip ==
    parsed # <<>> =>
        \A h \in Hashes :
            LET d == Get(parsed)
                back == NarInfo_try_from(NarInfoEntry_from_nar_info(h, d))
            IN /\ back # <<>>
               /\ store_path_path(Get(back).store_path)
                      = store_path_path(d.store_path)
               /\ Get(back).compression = d.compression
               /\ Get(back).file_hash = d.file_hash
               /\ Get(back).file_size = d.file_size
               /\ Get(back).nar_hash = d.nar_hash
               /\ Get(back).nar_size = d.nar_size
               /\ Get(back).deriver = d.deriver
               /\ Get(back).system = d.system
               /\ Get(back).references = d.references
               /\ Get(back).signature = d.signature

====
